---- MODULE Spec2Model ----
(***************************************************************************)
(* Meal ledger and lifetime-calorie counter of personal-calorie-pal.       *)
(*                                                                         *)
(* The state is the two SQLite tables the Express handlers share (meals,   *)
(* users.totalLifetimeCalories) and, for every connection, the position of *)
(* the handler it is running and the handler's local objects.  A handler   *)
(* is split at its awaits: one action is one storage operation together    *)
(* with the synchronous code that follows it up to the next await or the   *)
(* response.                                                               *)
(***************************************************************************)
EXTENDS Integers, Sequences, FiniteSets, TLC

\* ------------------------------------------------------------------ bounds
MaxMeals == 1        \* rows ever inserted into meals
MaxLogged == 2       \* the same, where only logMeal runs
MaxUpdates == 1      \* PUT requests that find their meal
MaxFailures == 1     \* storage operations that fail

Procs == {"c1", "c2"}
Users == {1, 2}

\* --------------------------------------------------------- request values
Undefined == "<undefined>"

\* A JSON element of body.foods: an object with an optional name and an
\* optional calories of some JS type, or null.
Food(n, t, c) == [isNull |-> FALSE, name |-> n, ctype |-> t, calories |-> c]
Num(n, c) == Food(n, "number", c)
NullFood == [isNull |-> TRUE, name |-> Undefined, ctype |-> "undefined", calories |-> 0]

\* body.foods: absent, a non-array value, or an array of elements.
Arr(items) == [kind |-> "array", items |-> items]
NoFoods == [kind |-> "undefined", items |-> <<>>]
StringFoods == [kind |-> "string", items |-> <<>>]

\* body.totalCalories: absent or a number.
NoTotal == [present |-> FALSE, v |-> 0]
Total(n) == [present |-> TRUE, v |-> n]

ValidFoodsInputs ==
    { Arr(<<Num("apple", 10)>>),
      Arr(<<Num(" Apple ", 10), Num("banana", 20)>>) }

ZeroFoodsInputs ==
    { Arr(<<Num("water", 0)>>) }

InvalidFoodsInputs ==
    { NoFoods,
      StringFoods,
      Arr(<<>>),
      Arr(<<Food(Undefined, "number", 10)>>),
      Arr(<<Num("", 10)>>),
      Arr(<<Num("apple", -10)>>),
      Arr(<<Food("apple", "string", 0)>>),
      Arr(<<Food("apple", "undefined", 0)>>),
      Arr(<<Num("apple", 10), Num("banana", -20)>>) }

OddFoodsInputs ==
    { Arr(<<NullFood>>),
      Arr(<<Num("  ", 10)>>) }

LogFoodsInputs ==
    ValidFoodsInputs \cup ZeroFoodsInputs \cup InvalidFoodsInputs \cup OddFoodsInputs

\* PUT bodies: calories are numbers or absent.
UpdateFoodsInputs ==
    { f \in LogFoodsInputs : \A i \in 1..Len(f.items) : f.items[i].ctype # "string" }

ClientTotals == { NoTotal, Total(0), Total(50), Total(-10) }

\* A food of fewer than ten calories.
SmallFoodsInputs ==
    { Arr(<<Num("mint", 5)>>) }

\* calories: true, a JSON value that is not a number (held as 1, what the
\* sum of the hooks makes of it).
BooleanFoodsInputs ==
    { Arr(<<Food("apple", "boolean", 1)>>) }

\* --------------------------------------------------------- pure functions
\* String.prototype.toLowerCase().trim() on the names above.
NormName(n) ==
    CASE n = " Apple " -> "apple"
      [] n = "  " -> ""
      [] OTHER -> n

\* foods.reduce((sum, food) => sum + food.calories, 0) on numeric calories.
RECURSIVE ReduceCalories(_)
ReduceCalories(items) ==
    IF items = <<>> THEN 0
    ELSE items[1].calories + ReduceCalories(Tail(items))

\* foods.reduce((total, food) => total + (food.calories || 0), 0)
RECURSIVE HookCalories(_)
HookCalories(items) ==
    IF items = <<>> THEN 0
    ELSE (IF items[1].ctype \in {"number", "boolean"} THEN items[1].calories ELSE 0)
         + HookCalories(Tail(items))

\* Math.round(totalCalories * 0.05): the nearest integer, a half rounded up.
RecommendedSteps(total) == (total + 10) \div 20

\* -------------------------------------------------------------- validation
\* POST /logMeal, lines 34-39: !foods || !Array.isArray(foods) || foods.length === 0
FoodsPresent(f) == f.kind = "array" /\ Len(f.items) > 0

\* Line 43: !food.name || typeof food.calories !== 'number' || food.calories < 0
BadFoodItem(food) ==
    \/ food.name = Undefined
    \/ food.name = ""
    \/ food.ctype # "number"
    \/ food.calories < 0

\* The loop of lines 42-49 in order: the first bad element answers 400, and
\* reading .name of a null element throws a TypeError first.
RECURSIVE CheckFoodItems(_)
CheckFoodItems(items) ==
    IF items = <<>> THEN "ok"
    ELSE IF items[1].isNull THEN "throw"
    ELSE IF BadFoodItem(items[1]) THEN "invalid"
    ELSE CheckFoodItems(Tail(items))

RouteValidation(f) ==
    IF ~FoodsPresent(f) THEN "invalid" ELSE CheckFoodItems(f.items)

\* Line 52: totalCalories || foods.reduce(...)
CalculatedCalories(f, t) ==
    IF t.present /\ t.v # 0 THEN t.v ELSE ReduceCalories(f.items)

\* foods.map(food => ({ name: food.name.toLowerCase().trim(), calories: food.calories, ... }))
MapFoods(items) ==
    [i \in 1..Len(items) |-> [items[i] EXCEPT !.name = NormName(items[i].name)]]

\* food.name.toLowerCase() throws on a null element and on a missing name.
MapThrows(items) ==
    \E i \in 1..Len(items) : items[i].isNull \/ items[i].name = Undefined

\* Meal.foods validate.isValidFoods
IsValidFoods(items) ==
    /\ Len(items) > 0
    /\ \A i \in 1..Len(items) :
          /\ ~items[i].isNull
          /\ items[i].name # Undefined /\ items[i].name # ""
          /\ items[i].ctype # "undefined"
          /\ ~(items[i].ctype = "number" /\ items[i].calories = 0)
          /\ ~(items[i].ctype = "number" /\ items[i].calories < 0)

\* Meal.totalCalories validate.min
IsValidTotal(total) == total >= 0

\* What the JSON column keeps of a validated food: the name and the calories
\* as the JSON value they were sent as.
Stored(items) ==
    [i \in 1..Len(items) |->
        [name |-> items[i].name, ctype |-> items[i].ctype, calories |-> items[i].calories]]

\* new Date() as the requests of this model are served: the instant, in
\* hours since the epoch, at which a body without consumedAt is stamped.
Now == 0

\* No user object: neither attached to the request nor sent in a body.
NoUser == [id |-> 0, username |-> ""]

\* The Authorization header of a request that carries none.
NoToken == [kind |-> "none", id |-> 0]

\* No image, no analysis of one, no provider of analyses configured.
NoImage == [len |-> 0, filename |-> Undefined]
NoAnalysis == [foods |-> <<>>, totalCalories |-> 0, method |-> "none"]
NoProviders == [openai |-> FALSE, clarifai |-> FALSE]

\* The body of a response that carries no data.
NoTotals == [totalCalories |-> 0, mealCount |-> 0, totalSteps |-> 0]
NoProgress == [current |-> 0, goal |-> 0, percentage |-> 0, remaining |-> 0]
NoBody ==
    [kind |-> "none", rows |-> <<>>, totals |-> NoTotals, hasNextPage |-> FALSE,
     progress |-> NoProgress, user |-> NoUser]

\* A request without query parameters.
NoDate == [present |-> FALSE, at |-> 0]
NoQuery == [page |-> Undefined, limit |-> Undefined, startDate |-> NoDate,
            endDate |-> NoDate, mealType |-> Undefined]

\* The row Meal.create inserts after the beforeCreate hook has run, for a
\* body that carries neither mealType nor consumedAt.
NewMeal(id, u, items) ==
    [id |-> id, userId |-> u, foods |-> Stored(items),
     totalCalories |-> HookCalories(items),
     recommendedSteps |-> RecommendedSteps(HookCalories(items)),
     mealType |-> "other", consumedAt |-> Now]

\* ------------------------------------------------------------------- state
VARIABLES
    meals,       \* the rows of table meals
    lifetime,    \* users.totalLifetimeCalories, by user id
    nextId,      \* the next AUTOINCREMENT id of table meals
    pc,          \* where each connection's handler stands
    call,        \* the handler's local objects and, once done, its response
    nupd,        \* PUT requests that found their meal, so far
    nfail,       \* storage operations that failed, so far
    accounts,    \* the rows of table users: id, username and password
    cache,       \* the entries of the SimpleCache, in the order of its Map
    clock        \* Date.now(), in ticks

vars == <<meals, lifetime, nextId, pc, call, nupd, nfail, accounts, cache, clock>>

Rest == {"idle", "done"}

\* op: the handler; user: req.user.id; mealId: the row created or addressed;
\* newFoods/changed: meal.foods as assigned by PUT and meal.changed('foods');
\* instTotal: meal.totalCalories of the loaded instance; oldCalories and
\* amount: the handler's constants of those names (amount is
\* calculatedCalories, aiAnalysis.totalCalories or caloriesDiff);
\* userTotal: user.totalLifetimeCalories of the loaded instance;
\* before: the counter when the request arrived (history only);
\* username/password: req.body of the auth routes; token: the Authorization
\* header; reqUser: req.user as the auth middleware attached it;
\* image, providers: the arguments and the configuration of an image
\* analysis; attempted: the providers it has called, in order (history);
\* analysis: what it returned; retries: the retry counter of a retrying
\* helper; outcomes: how each of its attempts ended, in order (history);
\* waits: the delays it slept, in order (history); result: "returned" or the
\* name of the error it threw; maxRetries, baseDelay: the arguments of
\* AsyncUtils.retry; key: the key of a cache operation.
NoCall ==
    [op |-> "none", user |-> 0, mealId |-> 0, newFoods |-> <<>>, changed |-> FALSE,
     instTotal |-> 0, oldCalories |-> 0, amount |-> 0, userTotal |-> 0,
     before |-> 0, status |-> 0, body |-> NoBody, query |-> NoQuery,
     username |-> "", password |-> "", token |-> NoToken, reqUser |-> NoUser,
     image |-> NoImage, providers |-> NoProviders, attempted |-> <<>>,
     analysis |-> NoAnalysis, retries |-> 0, outcomes |-> <<>>, waits |-> <<>>,
     result |-> "", maxRetries |-> 0, baseDelay |-> 0, key |-> ""]

Init ==
    /\ meals = {}
    /\ lifetime = [u \in Users |-> 0]
    /\ nextId = 1
    /\ pc = [p \in Procs |-> "idle"]
    /\ call = [p \in Procs |-> NoCall]
    /\ nupd = 0
    /\ nfail = 0
    /\ accounts = {}
    /\ cache = <<>>
    /\ clock = 0

\* A connection takes its next request once the responses have been read;
\* a handler behind the auth middleware starts where the middleware called
\* next().
Arrive(p) == pc[p] \in {"idle", "authed"} /\ \A q \in Procs : pc[q] # "done"

\* The counter as the request arrives, kept as history for a request that
\* arrives while no other is in flight.
Before(p, u) == IF \A q \in Procs \ {p} : pc[q] = "idle" THEN lifetime[u] ELSE 0

\* Whether this storage operation succeeds.
Storage(ok) ==
    IF ok THEN UNCHANGED nfail ELSE nfail < MaxFailures /\ nfail' = nfail + 1

\* The response has been read: the handler's objects are garbage.
Return(p) ==
    /\ pc[p] = "done"
    /\ pc' = [pc EXCEPT ![p] = "idle"]
    /\ call' = [call EXCEPT ![p] = NoCall]
    /\ UNCHANGED <<meals, lifetime, nextId, nupd, nfail, accounts, cache, clock>>

Others(p) == Procs \ {p}
AllResting(ps) == \A q \in ps : pc[q] \in Rest

\* res.status(code).json(...): the handler ends.
Respond(p, c, code) ==
    /\ pc' = [pc EXCEPT ![p] = "done"]
    /\ call' = [call EXCEPT ![p] =
                  [c EXCEPT !.status = code, !.newFoods = <<>>, !.changed = FALSE,
                            !.userTotal = 0]]

Goto(p, c, label) ==
    /\ pc' = [pc EXCEPT ![p] = label]
    /\ call' = [call EXCEPT ![p] = c]

\* A lookup by id alone.
FindOne_AnyOwner(id, u) == { m \in meals : m.id = id }

\* Meal.findOne({ where: { id, userId } })
FindOne(id, u) == { m \in meals : m.id = id /\ m.userId = u }

\* SUM of totalCalories over a user's rows.
RECURSIVE SumTotals(_)
SumTotals(ms) ==
    IF ms = {} THEN 0
    ELSE LET m == CHOOSE x \in ms : TRUE
         IN m.totalCalories + SumTotals(ms \ {m})

MealsOf(u) == { m \in meals : m.userId = u }

\* user.save() after user.totalLifetimeCalories was reassigned: UPDATE users
\* SET totalLifetimeCalories = <the instance's value> when the value changed.
SaveUser(u, value, delta) ==
    IF delta = 0 THEN lifetime ELSE [lifetime EXCEPT ![u] = value]

\* ------------------------------------------------------ POST /meals/logMeal
\* Lines 31-68: validation, calculatedCalories and Meal.create.
LogMeal_Create(p, u, f, t, ok) ==
    /\ Arrive(p)
    /\ Storage(ok)
    /\ LET c == [NoCall EXCEPT !.op = "logMeal", !.user = u, !.before = Before(p, u)]
           v == RouteValidation(f)
       IN IF v = "invalid"
          THEN Respond(p, c, 400) /\ UNCHANGED <<meals, lifetime, nextId>>
          ELSE IF v = "throw"
          THEN Respond(p, c, 500) /\ UNCHANGED <<meals, lifetime, nextId>>
          ELSE LET calc == CalculatedCalories(f, t)
                   items == MapFoods(f.items)
               IN IF ~ok \/ ~IsValidFoods(items) \/ ~IsValidTotal(calc)
                  THEN Respond(p, c, 500) /\ UNCHANGED <<meals, lifetime, nextId>>
                  ELSE /\ meals' = meals \cup {NewMeal(nextId, u, items)}
                       /\ nextId' = nextId + 1
                       /\ Goto(p, [c EXCEPT !.mealId = nextId, !.amount = calc,
                                            !.instTotal = HookCalories(items)],
                               "log_find")
                       /\ UNCHANGED lifetime
    /\ UNCHANGED <<nupd, accounts, cache, clock>>

\* Lines 71-72: User.findByPk and the += on the instance.
LogMeal_FindUser(p, ok) ==
    /\ pc[p] = "log_find"
    /\ Storage(ok)
    /\ IF ok
       THEN Goto(p, [call[p] EXCEPT !.userTotal = lifetime[call[p].user] + call[p].amount],
                 "log_save")
       ELSE Respond(p, call[p], 500)
    /\ UNCHANGED <<meals, lifetime, nextId, nupd, accounts, cache, clock>>

\* Line 73: user.save(), then the 201 response.
LogMeal_SaveUser(p, ok) ==
    /\ pc[p] = "log_save"
    /\ Storage(ok)
    /\ IF ok
       THEN /\ lifetime' = SaveUser(call[p].user, call[p].userTotal, call[p].amount)
            /\ Respond(p, call[p], 201)
       ELSE /\ Respond(p, call[p], 500)
            /\ UNCHANGED lifetime
    /\ UNCHANGED <<meals, nextId, nupd, accounts, cache, clock>>

\* ----------------------------------------------------------- PUT /meals/:id
\* meal.changed('foods'): the assigned array differs from the loaded one.
FoodsChanged(items, m) ==
    \/ \E i \in 1..Len(items) : items[i].ctype # "number"
    \/ Stored(items) # m.foods

\* Lines 343-375: Meal.findOne, oldCalories and the assignments to the instance.
UpdateMeal_Find(p, u, id, f, ok) ==
    /\ Arrive(p)
    /\ Storage(ok)
    /\ LET c == [NoCall EXCEPT !.op = "updateMeal", !.user = u, !.mealId = id,
                               !.before = Before(p, u)]
           found == FindOne(id, u)
       IN IF ~ok THEN Respond(p, c, 500) /\ UNCHANGED nupd
          ELSE IF found = {} THEN Respond(p, c, 404) /\ UNCHANGED nupd
          ELSE LET m == CHOOSE x \in found : TRUE
                   d == [c EXCEPT !.oldCalories = m.totalCalories,
                                  !.instTotal = m.totalCalories]
               IN /\ nupd < MaxUpdates
                  /\ nupd' = nupd + 1
                  /\ IF ~FoodsPresent(f) THEN Goto(p, d, "upd_save")
                     ELSE IF MapThrows(f.items) THEN Respond(p, d, 500)
                     ELSE Goto(p, [d EXCEPT !.newFoods = MapFoods(f.items),
                                            !.changed = FoodsChanged(MapFoods(f.items), m)],
                               "upd_save")
    /\ UNCHANGED <<meals, lifetime, nextId, accounts, cache, clock>>

\* A beforeUpdate hook that leaves totalCalories and recommendedSteps alone.
UpdatedRow_NoRecompute(m, items) == [m EXCEPT !.foods = Stored(items)]

\* The row after UPDATE meals SET foods, totalCalories, recommendedSteps WHERE id.
UpdatedRow(m, items) ==
    [m EXCEPT !.foods = Stored(items),
              !.totalCalories = HookCalories(items),
              !.recommendedSteps = RecommendedSteps(HookCalories(items))]

\* caloriesDiff taken to be the new total.
CaloriesDiff_NewOnly(new, old) == new

\* Line 380: meal.totalCalories - oldCalories
CaloriesDiff(new, old) == new - old

\* Lines 377-381: meal.save() (validation, the beforeUpdate hook, the UPDATE of
\* the changed columns) and caloriesDiff.
UpdateMeal_Save(p, ok) ==
    /\ pc[p] = "upd_save"
    /\ Storage(ok)
    /\ LET c == call[p]
       IN IF ~ok THEN Respond(p, c, 500) /\ UNCHANGED meals
          ELSE IF ~c.changed THEN Respond(p, c, 200) /\ UNCHANGED meals
          ELSE IF ~IsValidFoods(c.newFoods) THEN Respond(p, c, 500) /\ UNCHANGED meals
          ELSE LET new == HookCalories(c.newFoods)
                   diff == CaloriesDiff(new, c.oldCalories)
               IN /\ meals' = { IF m.id = c.mealId THEN UpdatedRow(m, c.newFoods) ELSE m
                                : m \in meals }
                  /\ IF diff = 0
                     THEN Respond(p, [c EXCEPT !.instTotal = new], 200)
                     ELSE Goto(p, [c EXCEPT !.instTotal = new, !.amount = diff,
                                            !.newFoods = <<>>, !.changed = FALSE],
                               "upd_find")
    /\ UNCHANGED <<lifetime, nextId, nupd, accounts, cache, clock>>

\* Lines 382-383: User.findByPk and the += caloriesDiff on the instance.
UpdateMeal_FindUser(p, ok) ==
    /\ pc[p] = "upd_find"
    /\ Storage(ok)
    /\ IF ok
       THEN Goto(p, [call[p] EXCEPT !.userTotal = lifetime[call[p].user] + call[p].amount],
                 "upd_usave")
       ELSE Respond(p, call[p], 500)
    /\ UNCHANGED <<meals, lifetime, nextId, nupd, accounts, cache, clock>>

\* Line 384: user.save(), then the response.
UpdateMeal_SaveUser(p, ok) ==
    /\ pc[p] = "upd_usave"
    /\ Storage(ok)
    /\ IF ok
       THEN /\ lifetime' = SaveUser(call[p].user, call[p].userTotal, call[p].amount)
            /\ Respond(p, call[p], 200)
       ELSE /\ Respond(p, call[p], 500)
            /\ UNCHANGED lifetime
    /\ UNCHANGED <<meals, nextId, nupd, accounts, cache, clock>>

\* -------------------------------------------------------- DELETE /meals/:id
\* Lines 430-442: Meal.findOne.
DeleteMeal_Find(p, u, id, ok) ==
    /\ Arrive(p)
    /\ Storage(ok)
    /\ LET c == [NoCall EXCEPT !.op = "deleteMeal", !.user = u, !.mealId = id,
                               !.before = Before(p, u)]
           found == FindOne(id, u)
       IN IF ~ok THEN Respond(p, c, 500)
          ELSE IF found = {} THEN Respond(p, c, 404)
          ELSE LET m == CHOOSE x \in found : TRUE
               IN Goto(p, [c EXCEPT !.instTotal = m.totalCalories], "del_find")
    /\ UNCHANGED <<meals, lifetime, nextId, nupd, accounts, cache, clock>>

\* Lines 446-447: User.findByPk and the -= meal.totalCalories on the instance.
DeleteMeal_FindUser(p, ok) ==
    /\ pc[p] = "del_find"
    /\ Storage(ok)
    /\ IF ok
       THEN Goto(p, [call[p] EXCEPT !.userTotal = lifetime[call[p].user] - call[p].instTotal],
                 "del_save")
       ELSE Respond(p, call[p], 500)
    /\ UNCHANGED <<meals, lifetime, nextId, nupd, accounts, cache, clock>>

\* Line 448: user.save().
DeleteMeal_SaveUser(p, ok) ==
    /\ pc[p] = "del_save"
    /\ Storage(ok)
    /\ IF ok
       THEN /\ lifetime' = SaveUser(call[p].user, call[p].userTotal, call[p].instTotal)
            /\ Goto(p, call[p], "del_destroy")
       ELSE /\ Respond(p, call[p], 500)
            /\ UNCHANGED lifetime
    /\ UNCHANGED <<meals, nextId, nupd, accounts, cache, clock>>

\* Line 450: meal.destroy(), then the response.
DeleteMeal_Destroy(p, ok) ==
    /\ pc[p] = "del_destroy"
    /\ Storage(ok)
    /\ IF ok
       THEN /\ meals' = { m \in meals : m.id # call[p].mealId }
            /\ Respond(p, call[p], 200)
       ELSE /\ Respond(p, call[p], 500)
            /\ UNCHANGED meals
    /\ UNCHANGED <<lifetime, nextId, nupd, accounts, cache, clock>>

\* ----------------------------------------------------------- POST /ai/smart-log
FallbackCalories == 300

\* Lines 273-291: the analysis used when OpenAI is not configured or fails.
FallbackAnalysis(description) ==
    [foods |-> <<Num(description, FallbackCalories)>>, totalCalories |-> FallbackCalories]

\* Lines 259-266: what JSON.parse of a model's answer may hold.
OpenAIAnalyses ==
    { [foods |-> <<Num("apple", 10)>>, totalCalories |-> 50] }

Descriptions == { Undefined, "pizza" }

\* Lines 218-303: the description check, the analysis and Meal.create.
SmartLog_Create(p, u, description, a, ok) ==
    /\ Arrive(p)
    /\ Storage(ok)
    /\ LET c == [NoCall EXCEPT !.op = "smartLog", !.user = u, !.before = Before(p, u)]
       IN IF description = Undefined
          THEN Respond(p, c, 400) /\ UNCHANGED <<meals, lifetime, nextId>>
          ELSE IF ~ok \/ ~IsValidFoods(a.foods) \/ ~IsValidTotal(a.totalCalories)
          THEN Respond(p, c, 500) /\ UNCHANGED <<meals, lifetime, nextId>>
          ELSE /\ meals' = meals \cup {NewMeal(nextId, u, a.foods)}
               /\ nextId' = nextId + 1
               /\ Goto(p, [c EXCEPT !.mealId = nextId, !.amount = a.totalCalories,
                                    !.instTotal = HookCalories(a.foods)],
                       "smart_find")
               /\ UNCHANGED lifetime
    /\ UNCHANGED <<nupd, accounts, cache, clock>>

\* Lines 306-307: User.findByPk and the += aiAnalysis.totalCalories.
SmartLog_FindUser(p, ok) ==
    /\ pc[p] = "smart_find"
    /\ Storage(ok)
    /\ IF ok
       THEN Goto(p, [call[p] EXCEPT !.userTotal = lifetime[call[p].user] + call[p].amount],
                 "smart_save")
       ELSE Respond(p, call[p], 500)
    /\ UNCHANGED <<meals, lifetime, nextId, nupd, accounts, cache, clock>>

\* Line 308: user.save(), then the response.
SmartLog_SaveUser(p, ok) ==
    /\ pc[p] = "smart_save"
    /\ Storage(ok)
    /\ IF ok
       THEN /\ lifetime' = SaveUser(call[p].user, call[p].userTotal, call[p].amount)
            /\ Respond(p, call[p], 200)
       ELSE /\ Respond(p, call[p], 500)
            /\ UNCHANGED lifetime
    /\ UNCHANGED <<meals, nextId, nupd, accounts, cache, clock>>

\* ---------------------------------------------------------- specifications
\* Each handler with the requests it may receive: users are the authenticated
\* callers, cap bounds the rows ever inserted, ids are the :id values sent.
LogMeal(p, ok, users, totals, cap) ==
    \/ /\ nextId <= cap
       /\ \E u \in users, f \in LogFoodsInputs, t \in totals : LogMeal_Create(p, u, f, t, ok)
    \/ LogMeal_FindUser(p, ok)
    \/ LogMeal_SaveUser(p, ok)

UpdateMeal(p, ok, users) ==
    \/ \E u \in users, id \in 1..(MaxMeals + 1), f \in UpdateFoodsInputs :
          UpdateMeal_Find(p, u, id, f, ok)
    \/ UpdateMeal_Save(p, ok)
    \/ UpdateMeal_FindUser(p, ok)
    \/ UpdateMeal_SaveUser(p, ok)

DeleteMeal(p, ok, users) ==
    \/ \E u \in users, id \in 1..(MaxMeals + 1) : DeleteMeal_Find(p, u, id, ok)
    \/ DeleteMeal_FindUser(p, ok)
    \/ DeleteMeal_SaveUser(p, ok)
    \/ DeleteMeal_Destroy(p, ok)

AllAnalyses == {FallbackAnalysis("pizza")} \cup OpenAIAnalyses

SmartLog(p, ok, users, cap) ==
    \/ /\ nextId <= cap
       /\ \E u \in users, d \in Descriptions, a \in AllAnalyses : SmartLog_Create(p, u, d, a, ok)
    \/ SmartLog_FindUser(p, ok)
    \/ SmartLog_SaveUser(p, ok)

\* One request at a time, each run to completion, storage never fails.
SeqNext ==
    \/ LogMeal("c1", TRUE, Users, ClientTotals, MaxMeals)
    \/ UpdateMeal("c1", TRUE, Users)
    \/ DeleteMeal("c1", TRUE, Users)
    \/ SmartLog("c1", TRUE, Users, MaxMeals)
    \/ Return("c1")

SeqSpec == Init /\ [][SeqNext]_vars

\* One request at a time; a storage operation may fail.
FailNext ==
    \E ok \in BOOLEAN :
        \/ LogMeal("c1", ok, Users, ClientTotals, MaxMeals)
        \/ UpdateMeal("c1", ok, Users)
        \/ DeleteMeal("c1", ok, Users)
        \/ SmartLog("c1", ok, Users, MaxMeals)
        \/ Return("c1")

FailSpec == Init /\ [][FailNext]_vars

\* Requests of one user on two connections, interleaved at the awaits: the
\* handlers that write rows of meals, with every request body.
Next ==
    \E p \in Procs :
        \/ LogMeal(p, TRUE, {1}, ClientTotals, MaxMeals)
        \/ UpdateMeal(p, TRUE, {1})
        \/ SmartLog(p, TRUE, {1}, MaxMeals)
        \/ Return(p)

Spec == Init /\ [][Next]_vars

\* Requests of one user on two connections that send no totalCalories.
ConcNext ==
    \E p \in Procs :
        \/ LogMeal(p, TRUE, {1}, {NoTotal}, MaxMeals)
        \/ UpdateMeal(p, TRUE, {1})
        \/ DeleteMeal(p, TRUE, {1})
        \/ Return(p)

ConcSpec == Init /\ [][ConcNext]_vars

\* Concurrent logMeal requests of one user that send no totalCalories.
LogNext ==
    \E p \in Procs :
        \/ LogMeal(p, TRUE, {1}, {NoTotal}, MaxLogged)
        \/ Return(p)

LogSpec == Init /\ [][LogNext]_vars

\* ------------------------------------------------------ GET /meals/:id
\* Lines 288-302: Meal.findOne by id and owner, 404 or the meal.
GetMeal(p, u, id, ok) ==
    /\ Arrive(p)
    /\ Storage(ok)
    /\ LET c == [NoCall EXCEPT !.op = "getMeal", !.user = u, !.mealId = id,
                               !.before = Before(p, u)]
           found == FindOne(id, u)
       IN IF ~ok THEN Respond(p, c, 500)
          ELSE IF found = {} THEN Respond(p, c, 404)
          ELSE Respond(p, [c EXCEPT !.body = [NoBody EXCEPT !.kind = "meal",
                                                 !.rows = <<CHOOSE m \in found : TRUE>>]],
                       200)
    /\ UNCHANGED <<meals, lifetime, nextId, nupd, accounts, cache, clock>>

\* --------------------------------------------------- GET /meals/history
\* A JS number: NaN or an integer.
NaN == [nan |-> TRUE, v |-> 0]
JsNum(n) == [nan |-> FALSE, v |-> n]

\* parseInt of the query-string values of this model.
ParseInt(str) ==
    CASE str = "-1" -> JsNum(-1)
      [] str = "0" -> JsNum(0)
      [] str = "1" -> JsNum(1)
      [] str = "2" -> JsNum(2)
      [] str = "3" -> JsNum(3)
      [] str = "1000" -> JsNum(1000)
      [] OTHER -> NaN

\* Math.max(a, x) and Math.min(a, x): NaN when x is NaN.
MathMax(a, x) == IF x.nan THEN NaN ELSE JsNum(IF x.v > a THEN x.v ELSE a)
MathMin(a, x) == IF x.nan THEN NaN ELSE JsNum(IF x.v < a THEN x.v ELSE a)

DefaultPage == 1
DefaultLimit == 20
MaxLimit == 100

\* Line 220: Math.max(1, parseInt(page)), page = 1 when the parameter is absent.
PageNum(q) ==
    MathMax(1, IF q.page = Undefined THEN JsNum(DefaultPage) ELSE ParseInt(q.page))

\* Line 221: Math.min(100, Math.max(1, parseInt(limit))), limit = 20 when absent.
LimitNum(q) ==
    MathMin(MaxLimit,
            MathMax(1, IF q.limit = Undefined THEN JsNum(DefaultLimit)
                       ELSE ParseInt(q.limit)))

\* Lines 224-237: the where clause. A date filter is an instant, a bound of
\* the closed range [startDate, endDate].
HistoryWhere_AnyOwner(u, q) ==
    { m \in meals :
        /\ ~q.startDate.present \/ m.consumedAt >= q.startDate.at
        /\ ~q.endDate.present \/ m.consumedAt <= q.endDate.at
        /\ q.mealType = Undefined \/ m.mealType = q.mealType }

HistoryWhere(u, q) ==
    { m \in meals :
        /\ m.userId = u
        /\ ~q.startDate.present \/ m.consumedAt >= q.startDate.at
        /\ ~q.endDate.present \/ m.consumedAt <= q.endDate.at
        /\ q.mealType = Undefined \/ m.mealType = q.mealType }

\* ORDER BY consumedAt DESC; rows of equal consumedAt come in the order of
\* their ids in every query.
RECURSIVE OrderDesc(_)
OrderDesc(rows) ==
    IF rows = {} THEN <<>>
    ELSE LET first == CHOOSE m \in rows : \A n \in rows :
                          \/ m.consumedAt > n.consumedAt
                          \/ m.consumedAt = n.consumedAt /\ m.id <= n.id
         IN <<first>> \o OrderDesc(rows \ {first})

\* A page that always begins at the first row.
Slice_FromStart(ordered, offset, limit) ==
    SubSeq(ordered, 1, IF limit < Len(ordered) THEN limit ELSE Len(ordered))

\* OFFSET offset LIMIT limit of an ordered result.
Slice(ordered, offset, limit) ==
    SubSeq(ordered, offset + 1,
           IF offset + limit < Len(ordered) THEN offset + limit ELSE Len(ordered))

\* Math.ceil(totalMeals / limitNum)
TotalPages(totalMeals, limit) == (totalMeals + limit - 1) \div limit

\* Lines 209-268: the handler. A NaN offset or limit makes the query fail.
History(p, u, q, ok) ==
    /\ Arrive(p)
    /\ Storage(ok)
    /\ LET c == [NoCall EXCEPT !.op = "history", !.user = u, !.query = q,
                               !.before = Before(p, u)]
           pageNum == PageNum(q)
           limitNum == LimitNum(q)
       IN IF ~ok \/ pageNum.nan \/ limitNum.nan THEN Respond(p, c, 500)
          ELSE LET ordered == OrderDesc(HistoryWhere(u, q))
                   rows == Slice(ordered, (pageNum.v - 1) * limitNum.v, limitNum.v)
                   totalPages == TotalPages(Len(ordered), limitNum.v)
               IN Respond(p, [c EXCEPT !.body = [NoBody EXCEPT !.kind = "page",
                                                    !.rows = rows,
                                                    !.hasNextPage = pageNum.v < totalPages]],
                          200)
    /\ UNCHANGED <<meals, lifetime, nextId, nupd, accounts, cache, clock>>

\* A date filter of the query string: new Date(startDate).
At(t) == [present |-> TRUE, at |-> t]

\* Queries sent along with writes: no filter, a page size of 1.
PlainQueries == { NoQuery, [NoQuery EXCEPT !.limit = "1"] }

\* One request at a time of either user: the handlers that read and write
\* single meals and the history.
OwnNext ==
    \/ LogMeal("c1", TRUE, Users, {NoTotal}, MaxMeals)
    \/ UpdateMeal("c1", TRUE, Users)
    \/ DeleteMeal("c1", TRUE, Users)
    \/ \E u \in Users, id \in 1..(MaxMeals + 1) : GetMeal("c1", u, id, TRUE)
    \/ \E u \in Users, q \in PlainQueries : History("c1", u, q, TRUE)
    \/ Return("c1")

OwnSpec == Init /\ [][OwnNext]_vars

\* One request at a time: meals are logged, with every request body, and
\* deleted again.
UndoNext ==
    \/ LogMeal("c1", TRUE, Users, ClientTotals, MaxMeals)
    \/ DeleteMeal("c1", TRUE, Users)
    \/ Return("c1")

UndoSpec == Init /\ [][UndoNext]_vars

\* ------------------------------------- Meal.getDailyCalories / getWeeklyCalories
\* Instants are hours since the epoch, in the server's time zone (UTC: every
\* day has 24 hours).
HoursPerDay == 24
DaysPerWeek == 7

\* Date.prototype.getDay() of 1970-01-01, a Thursday.
EpochWeekday == 4

\* new Date(date.getFullYear(), date.getMonth(), date.getDate())
StartOfDay(t) == t - (t % HoursPerDay)

\* date.getDay(): 0 is Sunday.
GetDay(t) == ((t \div HoursPerDay) + EpochWeekday) % DaysPerWeek

\* A week taken to begin on the day of the date itself.
StartOfWeek_NoBackstep(t) == StartOfDay(t)

\* new Date(date.getFullYear(), date.getMonth(), date.getDate() - date.getDay())
StartOfWeek(t) == StartOfDay(t) - GetDay(t) * HoursPerDay

\* A window that includes its end.
InWindow_Closed(t, from, to) == t >= from /\ t <= to

\* consumedAt: { [Op.gte]: start, [Op.lt]: end }
InWindow(t, from, to) == t >= from /\ t < to

WindowRows(u, from, to) ==
    { m \in meals : m.userId = u /\ InWindow(m.consumedAt, from, to) }

\* SUM(col): NULL over no rows.
SqlNull == [null |-> TRUE, v |-> 0]
SqlInt(n) == [null |-> FALSE, v |-> n]

RECURSIVE SumSteps(_)
SumSteps(ms) ==
    IF ms = {} THEN 0
    ELSE LET m == CHOOSE x \in ms : TRUE
         IN m.recommendedSteps + SumSteps(ms \ {m})

SqlSumTotals(rows) == IF rows = {} THEN SqlNull ELSE SqlInt(SumTotals(rows))
SqlSumSteps(rows) == IF rows = {} THEN SqlNull ELSE SqlInt(SumSteps(rows))
SqlCount(rows) == SqlInt(Cardinality(rows))

\* parseInt(data.x) of an aggregate: NaN for NULL.
AggParseInt(x) == IF x.null THEN NaN ELSE JsNum(x.v)

\* A NaN reported as it is (-1 stands for it).
OrZero_Keep(n) == IF n.nan THEN -1 ELSE n.v

\* n || 0
OrZero(n) == IF n.nan THEN 0 ELSE n.v

\* Lines 139-160 and 168-189: the aggregate query and the returned object.
WindowTotals(u, from, to) ==
    LET rows == WindowRows(u, from, to)
    IN [totalCalories |-> OrZero(AggParseInt(SqlSumTotals(rows))),
        mealCount |-> OrZero(AggParseInt(SqlCount(rows))),
        totalSteps |-> OrZero(AggParseInt(SqlSumSteps(rows)))]

DailyCalories(u, date) ==
    WindowTotals(u, StartOfDay(date), StartOfDay(date) + HoursPerDay)

WeeklyCalories(u, date) ==
    WindowTotals(u, StartOfWeek(date), StartOfWeek(date) + DaysPerWeek * HoursPerDay)

\* A caller of Meal.getDailyCalories(req.user.id, date).
GetDailyCalories(p, u, date) ==
    /\ Arrive(p)
    /\ Respond(p, [NoCall EXCEPT !.op = "daily", !.user = u,
                                 !.query = [NoQuery EXCEPT !.startDate = At(date)],
                                 !.body = [NoBody EXCEPT !.kind = "totals",
                                              !.totals = DailyCalories(u, date)]],
               200)
    /\ UNCHANGED <<meals, lifetime, nextId, nupd, nfail, accounts, cache, clock>>

\* A caller of Meal.getWeeklyCalories(req.user.id, date).
GetWeeklyCalories(p, u, date) ==
    /\ Arrive(p)
    /\ Respond(p, [NoCall EXCEPT !.op = "weekly", !.user = u,
                                 !.query = [NoQuery EXCEPT !.startDate = At(date)],
                                 !.body = [NoBody EXCEPT !.kind = "totals",
                                              !.totals = WeeklyCalories(u, date)]],
               200)
    /\ UNCHANGED <<meals, lifetime, nextId, nupd, nfail, accounts, cache, clock>>

\* ------------------------------------------------------ GET /meals/progress
DefaultGoal == 2000

\* Math.round(x / y * 100) for x >= 0 and y > 0: a half is rounded up.
RoundPercent(x, y) == (200 * x + y) \div (2 * y)

\* Lines 145-151: dailyGoal and dailyProgress.
DailyProgress(current, userGoal) ==
    LET dailyGoal == IF userGoal = 0 THEN DefaultGoal ELSE userGoal
    IN [current |-> current, goal |-> dailyGoal,
        percentage |-> RoundPercent(current, dailyGoal),
        remaining |-> IF dailyGoal - current > 0 THEN dailyGoal - current ELSE 0]

\* Line 124: req.user._id. The auth middleware attaches user.toJSON(), the
\* row's columns without the password: it has an id and no _id.
ReqUserMongoId(u) == Undefined

\* Lines 122-191. userId is undefined: Meal.getDailyCalories puts it in a
\* where clause, which Sequelize refuses, and User.findById(...).select and
\* Meal.countDocuments are no functions of a Sequelize model. The handler
\* throws before it builds dailyProgress and its catch answers 500.
Progress(p, u) ==
    /\ Arrive(p)
    /\ LET c == [NoCall EXCEPT !.op = "progress", !.user = u]
       IN IF ReqUserMongoId(u) = Undefined
          THEN Respond(p, c, 500)
          ELSE Respond(p, [c EXCEPT !.body =
                              [NoBody EXCEPT !.kind = "progress",
                                  !.progress = DailyProgress(
                                      DailyCalories(u, Now).totalCalories, DefaultGoal)]],
                       200)
    /\ UNCHANGED <<meals, lifetime, nextId, nupd, nfail, accounts, cache, clock>>

\* ------------------------------------------------------------ stored ledgers
MaxRows == 2

\* consumedAt as sent by clients: around the Sunday 1970-01-04 00:00 (hour 72),
\* the Monday after it and the Sunday a week later (hour 240).
RowTimes == { 71, 72, 96, 239, 240 }
QueryDates == { 71, 72, 80, 96, 239, 240 }

\* Meals as logMeal stores them for bodies with consumedAt and mealType.
MealKinds ==
    { [mealType |-> "breakfast", items |-> <<Num("apple", 10)>>],
      [mealType |-> "other", items |-> <<Num("apple", 10), Num("banana", 20)>>] }

DatedMeal(id, u, t, k) ==
    [NewMeal(id, u, k.items) EXCEPT !.mealType = k.mealType, !.consumedAt = t]

\* The tables after n meals were logged at instants of times.
Ledgers(times) ==
    UNION { { { DatedMeal(i, f[i][1], f[i][2], f[i][3]) : i \in 1..n }
              : f \in [1..n -> Users \X times \X MealKinds] }
            : n \in 0..MaxRows }

LedgerInit(times) ==
    /\ meals \in Ledgers(times)
    /\ lifetime = [u \in Users |-> SumTotals(MealsOf(u))]
    /\ nextId = Cardinality(meals) + 1
    /\ pc = [p \in Procs |-> "idle"]
    /\ call = [p \in Procs |-> NoCall]
    /\ nupd = 0
    /\ nfail = 0
    /\ accounts = {}
    /\ cache = <<>>
    /\ clock = 0

\* The totals of a day and of a week, and the progress, over stored ledgers.
TotalsInit == LedgerInit(RowTimes)

TotalsNext ==
    \/ \E u \in Users, d \in QueryDates : GetDailyCalories("c1", u, d)
    \/ \E u \in Users, d \in QueryDates : GetWeeklyCalories("c1", u, d)
    \/ \E u \in Users : Progress("c1", u)
    \/ Return("c1")

TotalsSpec == TotalsInit /\ [][TotalsNext]_vars

\* The history over stored ledgers, with every query string of the model.
ListTimes == { 72, 96 }
PageParams == { Undefined, "0", "1", "2", "3", "abc" }
LimitParams == { Undefined, "-1", "0", "1", "2", "1000", "abc" }
Filters ==
    { NoQuery,
      [NoQuery EXCEPT !.startDate = At(96)],
      [NoQuery EXCEPT !.endDate = At(72)],
      [NoQuery EXCEPT !.startDate = At(72), !.endDate = At(96)],
      [NoQuery EXCEPT !.mealType = "breakfast"] }
ListQueries ==
    { [f EXCEPT !.page = pg, !.limit = lim] :
        f \in Filters, pg \in PageParams, lim \in LimitParams }

ListInit == LedgerInit(ListTimes)

ListNext ==
    \/ \E u \in Users, q \in ListQueries : History("c1", u, q, TRUE)
    \/ Return("c1")

ListSpec == ListInit /\ [][ListNext]_vars

\* ------------------------------------------------------ POST /auth/register
MaxAccounts == 2

\* req.body.username and req.body.password.
Usernames == { Undefined, "al", "Bob", "bob", " bob ", "alice" }
Passwords == { "secret1", "pw" }

\* username.toLowerCase().trim() on the names above.
LowerTrim(n) ==
    CASE n = "Bob" -> "bob"
      [] n = " bob " -> "bob"
      [] OTHER -> n

\* String.prototype.length of the values above.
StrLen(str) ==
    CASE str = "al" -> 2
      [] str = "pw" -> 2
      [] str = "Bob" -> 3
      [] str = "bob" -> 3
      [] str = " bob " -> 5
      [] str = "alice" -> 5
      [] str = "secret1" -> 7
      [] OTHER -> 0

MinUsername == 3
MaxUsername == 30
MinPassword == 6

\* bcrypt.hash of the passwords above, as the beforeCreate hook stores it.
Hash(pw) ==
    CASE pw = "secret1" -> "$2a$12$secret1"
      [] pw = "pw" -> "$2a$12$pw"
      [] OTHER -> "$2a$12$"

\* A copy of the row's dataValues, the password included.
ToJSON_Raw(user) == user

\* User.prototype.toJSON: a copy of dataValues without the password.
ToJSON(user) == [f \in DOMAIN user \ {"password"} |-> user[f]]

\* A users table without the unique index on username.
UniqueViolation_NoIndex(name) == FALSE

\* username: { unique: true }: the INSERT violates the unique index.
UniqueViolation(name) == \E a \in accounts : a.username = name

\* User.username validate.len
IsValidUsername(name) == StrLen(name) >= MinUsername /\ StrLen(name) <= MaxUsername

\* Lines 21-54: the checks of the body and User.findOne by the normalised name.
Register_Find(p, username, password, ok) ==
    /\ Arrive(p)
    /\ Storage(ok)
    /\ pc[p] = "idle"
    /\ LET c == [NoCall EXCEPT !.op = "register", !.username = username,
                               !.password = password]
       IN IF username = Undefined THEN Respond(p, c, 400)
          ELSE IF StrLen(username) < MinUsername THEN Respond(p, c, 400)
          ELSE IF StrLen(password) < MinPassword THEN Respond(p, c, 400)
          ELSE IF ~ok THEN Respond(p, c, 500)
          ELSE IF \E a \in accounts : a.username = LowerTrim(username)
          THEN Respond(p, c, 400)
          ELSE Goto(p, c, "reg_create")
    /\ UNCHANGED <<meals, lifetime, nextId, nupd, accounts, cache, clock>>

\* Lines 57-72: User.create (validation, then the INSERT) and the 201 response.
\* A Sequelize error is not named 'ValidationError': the catch answers 500.
Register_Create(p, ok) ==
    /\ pc[p] = "reg_create"
    /\ Storage(ok)
    /\ LET name == LowerTrim(call[p].username)
       IN IF ~ok \/ ~IsValidUsername(name) \/ UniqueViolation(name)
          THEN Respond(p, call[p], 500) /\ UNCHANGED accounts
          ELSE LET user == [id |-> Cardinality(accounts) + 1, username |-> name,
                            password |-> Hash(call[p].password)]
               IN /\ accounts' = accounts \cup {user}
                  /\ Respond(p, [call[p] EXCEPT !.body =
                                     [NoBody EXCEPT !.kind = "user",
                                                    !.user = ToJSON(user)]], 201)
    /\ UNCHANGED <<meals, lifetime, nextId, nupd, cache, clock>>

Register(p, ok) ==
    \/ /\ Cardinality(accounts) < MaxAccounts
       /\ \E n \in Usernames, pw \in Passwords : Register_Find(p, n, pw, ok)
    \/ Register_Create(p, ok)

\* Register requests on two connections, interleaved at the awaits.
RegNext ==
    \E p \in Procs :
        \/ Register(p, TRUE)
        \/ Return(p)

RegSpec == Init /\ [][RegNext]_vars

\* ------------------------------------------- auth middleware, login, profile
\* The Authorization header: absent, not a Bearer header, a Bearer token that
\* jwt.verify rejects, an expired token, or a token signed for user id.
Tokens ==
    { NoToken, [kind |-> "basic", id |-> 0], [kind |-> "garbage", id |-> 0],
      [kind |-> "expired", id |-> 1] }
    \cup { [kind |-> "valid", id |-> i] : i \in 1..(MaxAccounts + 1) }

\* A verification that does not look at the exp claim.
JwtVerify_IgnoreExpiry(token) ==
    IF token.kind \in {"valid", "expired"} THEN "ok" ELSE "JsonWebTokenError"

\* jwt.verify(token, JWT_SECRET): the payload, or the name of the error.
JwtVerify(token) ==
    CASE token.kind = "valid" -> "ok"
      [] token.kind = "expired" -> "TokenExpiredError"
      [] OTHER -> "JsonWebTokenError"

\* The auth middleware: the header, jwt.verify, User.findByPk(decoded.id) and
\* req.user = user.toJSON(), or the 401 (500 for an error of another name).
Auth(p, token, ok) ==
    /\ Arrive(p)
    /\ pc[p] = "idle"
    /\ Storage(ok)
    /\ LET c == [NoCall EXCEPT !.op = "auth", !.token = token]
           found == { a \in accounts : a.id = token.id }
       IN IF token.kind \in {"none", "basic"} THEN Respond(p, c, 401)
          ELSE IF JwtVerify(token) # "ok" THEN Respond(p, c, 401)
          ELSE IF ~ok THEN Respond(p, c, 500)
          ELSE IF found = {} THEN Respond(p, c, 401)
          ELSE Goto(p, [c EXCEPT !.user = token.id,
                                 !.reqUser = ToJSON(CHOOSE a \in found : TRUE)],
                    "authed")
    /\ UNCHANGED <<meals, lifetime, nextId, nupd, accounts, cache, clock>>

\* req.user.id of the request the middleware let through.
AuthedUser(p) == IF pc[p] = "authed" THEN {call[p].user} \cap Users ELSE {}

\* POST /auth/login: the lookup by the normalised name, bcrypt.compare and
\* the response with user.toJSON().
Login(p, username, password, ok) ==
    /\ Arrive(p)
    /\ pc[p] = "idle"
    /\ Storage(ok)
    /\ LET c == [NoCall EXCEPT !.op = "login", !.username = username,
                               !.password = password]
           found == { a \in accounts : a.username = LowerTrim(username) }
       IN IF username = Undefined THEN Respond(p, c, 400)
          ELSE IF ~ok THEN Respond(p, c, 500)
          ELSE IF found = {} THEN Respond(p, c, 401)
          ELSE LET user == CHOOSE a \in found : TRUE
               IN IF user.password # Hash(password) THEN Respond(p, c, 401)
                  ELSE Respond(p, [c EXCEPT !.body =
                                      [NoBody EXCEPT !.kind = "user",
                                                     !.user = ToJSON(user)]], 200)
    /\ UNCHANGED <<meals, lifetime, nextId, nupd, accounts, cache, clock>>

\* GET /auth/me: User.findByPk(req.user.id) and user.toJSON().
Me(p, ok) ==
    /\ Arrive(p)
    /\ pc[p] = "authed"
    /\ Storage(ok)
    /\ LET c == [NoCall EXCEPT !.op = "me", !.user = call[p].user]
           found == { a \in accounts : a.id = call[p].user }
       IN IF ~ok THEN Respond(p, c, 500)
          ELSE IF found = {} THEN Respond(p, c, 404)
          ELSE Respond(p, [c EXCEPT !.body =
                              [NoBody EXCEPT !.kind = "user",
                                             !.user = ToJSON(CHOOSE a \in found : TRUE)]],
                       200)
    /\ UNCHANGED <<meals, lifetime, nextId, nupd, accounts, cache, clock>>

\* PUT /auth/profile: User.findById is not a function of the model; the
\* TypeError is caught and answered 500.
Profile(p) ==
    /\ Arrive(p)
    /\ pc[p] = "authed"
    /\ Respond(p, [NoCall EXCEPT !.op = "profile", !.user = call[p].user], 500)
    /\ UNCHANGED <<meals, lifetime, nextId, nupd, nfail, accounts, cache, clock>>

\* One request at a time: accounts are registered, users log in, and
\* requests with every kind of Authorization header reach the protected
\* routes of the meals and of the profile.
AuthNext ==
    \/ Register("c1", TRUE)
    \/ \E n \in Usernames, pw \in Passwords : Login("c1", n, pw, TRUE)
    \/ \E t \in Tokens : Auth("c1", t, TRUE)
    \/ LogMeal("c1", TRUE, AuthedUser("c1"), {NoTotal}, MaxMeals)
    \/ DeleteMeal("c1", TRUE, AuthedUser("c1"))
    \/ \E u \in AuthedUser("c1"), id \in 1..MaxMeals : GetMeal("c1", u, id, TRUE)
    \/ \E u \in AuthedUser("c1") : History("c1", u, NoQuery, TRUE)
    \/ Me("c1", TRUE)
    \/ Profile("c1")
    \/ Return("c1")

AuthSpec == Init /\ [][AuthNext]_vars

\* ------------------------------------------- meals of unusual request bodies
\* The bodies of POST /meals/logMeal and of PUT /meals/:id, those with small
\* and with non-numeric calories included.
EdgeLogInputs == LogFoodsInputs \cup SmallFoodsInputs \cup BooleanFoodsInputs
EdgeUpdateInputs == UpdateFoodsInputs \cup SmallFoodsInputs \cup BooleanFoodsInputs

\* DataTransformers.transformMealData: the fields of a meal as reported.
TransformMealData(meal) ==
    [id |-> meal.id, foods |-> meal.foods, totalCalories |-> meal.totalCalories,
     mealType |-> meal.mealType, consumedAt |-> meal.consumedAt,
     recommendedSteps |-> IF meal.recommendedSteps # 0 THEN meal.recommendedSteps
                          ELSE meal.totalCalories * 20]

\* One user logs meals and updates them, one request at a time, with every
\* body above and without a client total.
EdgeNext ==
    \/ /\ nextId <= MaxLogged
       /\ \E f \in EdgeLogInputs : LogMeal_Create("c1", 1, f, NoTotal, TRUE)
    \/ LogMeal_FindUser("c1", TRUE)
    \/ LogMeal_SaveUser("c1", TRUE)
    \/ \E id \in 1..MaxLogged, f \in EdgeUpdateInputs : UpdateMeal_Find("c1", 1, id, f, TRUE)
    \/ UpdateMeal_Save("c1", TRUE)
    \/ UpdateMeal_FindUser("c1", TRUE)
    \/ UpdateMeal_SaveUser("c1", TRUE)
    \/ Return("c1")

EdgeSpec == Init /\ [][EdgeNext]_vars

\* ------------------------------------------------------------ image analysis
\* Object.keys(FOOD_DATABASE), in insertion order, and the calories of each.
FoodNames ==
    <<"burger", "pizza", "apple", "banana", "rice", "chicken", "pasta", "salad",
      "sandwich", "eggs", "yogurt">>

FoodCalories(name) ==
    CASE name = "burger" -> 540
      [] name = "pizza" -> 285
      [] name = "apple" -> 95
      [] name = "banana" -> 105
      [] name = "rice" -> 206
      [] name = "chicken" -> 231
      [] name = "pasta" -> 220
      [] name = "salad" -> 35
      [] name = "sandwich" -> 320
      [] name = "eggs" -> 155
      [] name = "yogurt" -> 150
      [] OTHER -> 0

\* imageBuffer.length and originalFilename.
MaxBuffer == 12
BufferLengths == 0..MaxBuffer
Filenames == { "unknown", "", "IMG_0001.jpg", "pizza.jpg", "Burger_and_Pizza.PNG" }

\* filename.toLowerCase().includes(food), for the names above.
Includes(filename, food) ==
    \/ filename = "pizza.jpg" /\ food = "pizza"
    \/ filename = "Burger_and_Pizza.PNG" /\ food \in {"burger", "pizza"}

\* Math.random(), in thousandths, and the values successive calls return.
Thousand == 1000
Randoms == { 0, 500, 999 }
RandomDraws == [1..2 -> Randoms]
Draw(rs, i) == rs[((i - 1) % 2) + 1]

\* lo + Math.random() * width, in thousandths.
Confidence(lo, width, r) == lo + (r * width) \div Thousand

DetectedFood(name, confidence) ==
    [name |-> name, calories |-> FoodCalories(name), confidence |-> confidence]

\* mockImageAnalysis: one to three foods chosen by the length of the buffer.
RECURSIVE ImageLoop(_, _, _, _)
ImageLoop(len, rs, i, detected) ==
    IF i >= 1 + (len % 3) \/ i >= 3 THEN detected
    ELSE LET foodName == FoodNames[(((len % Len(FoodNames)) + i * 3) % Len(FoodNames)) + 1]
         IN IF \E k \in 1..Len(detected) : detected[k].name = foodName
            THEN ImageLoop(len, rs, i + 1, detected)
            ELSE ImageLoop(len, rs, i + 1,
                     Append(detected, DetectedFood(foodName, Confidence(650, 250, Draw(rs, i + 1)))))

MockImageAnalysis(len, rs) == ImageLoop(len, rs, 0, <<>>)

\* The foods the filename names, in the order of the database.
RECURSIVE FilenameLoop(_, _, _, _)
FilenameLoop(filename, rs, k, detected) ==
    IF k > Len(FoodNames) THEN detected
    ELSE IF Includes(filename, FoodNames[k])
    THEN FilenameLoop(filename, rs, k + 1,
             Append(detected, DetectedFood(FoodNames[k],
                                  Confidence(900, 100, Draw(rs, Len(detected) + 1)))))
    ELSE FilenameLoop(filename, rs, k + 1, detected)

\* A detection that reads the filename alone.
MockFoodDetection_FilenameOnly(len, filename, rs) == FilenameLoop(filename, rs, 1, <<>>)

\* mockFoodDetection: the filename, else the buffer, else a random food.
MockFoodDetection(len, filename, rs) ==
    LET named == FilenameLoop(filename, rs, 1, <<>>)
        seen == IF Len(named) = 0 THEN MockImageAnalysis(len, rs) ELSE named
    IN IF Len(seen) = 0
       THEN <<DetectedFood(FoodNames[((Draw(rs, 1) * Len(FoodNames)) \div Thousand) + 1],
                           Confidence(600, 200, Draw(rs, 2)))>>
       ELSE seen

RECURSIVE SumCalories(_)
SumCalories(foods) ==
    IF foods = <<>> THEN 0 ELSE foods[1].calories + SumCalories(Tail(foods))

\* analyzeFood: the detected foods, each with food.confidence || (0.7 +
\* Math.random() * 0.25), and the sum of their calories.
AnalyzeFood(len, filename, rs) ==
    LET detected == MockFoodDetection(len, filename, rs)
        enriched == [k \in 1..Len(detected) |->
                        IF detected[k].confidence # 0 THEN detected[k]
                        ELSE [detected[k] EXCEPT !.confidence =
                                                    Confidence(700, 250, Draw(rs, k))]]
    IN [foods |-> enriched, totalCalories |-> SumCalories(enriched),
        method |-> "mock-detection"]

\* A call of analyzeFood with a buffer of len bytes.
Analyze(p, len, filename, rs) ==
    /\ Arrive(p)
    /\ pc[p] = "idle"
    /\ Respond(p, [NoCall EXCEPT !.op = "analyzeFood",
                                 !.image = [len |-> len, filename |-> filename],
                                 !.analysis = AnalyzeFood(len, filename, rs)], 200)
    /\ UNCHANGED <<meals, lifetime, nextId, nupd, nfail, accounts, cache, clock>>

\* AIService.mockFoodAnalysis: one of two foods, at random.
MockFoodAnalysis(r) ==
    LET mockFoods == <<[name |-> "apple", calories |-> 95, confidence |-> 950],
                       [name |-> "banana", calories |-> 105, confidence |-> 880]>>
        randomFood == mockFoods[((r * Len(mockFoods)) \div Thousand) + 1]
    IN [foods |-> <<randomFood>>, totalCalories |-> randomFood.calories,
        method |-> "mock-analysis"]

\* What a remote provider answered, once it answers.
ProviderAnalysis(provider) ==
    [foods |-> <<[name |-> "apple", calories |-> 95, confidence |-> 900]>>,
     totalCalories |-> 95,
     method |-> IF provider = "openai" THEN "openai-gpt4-vision"
                ELSE "clarifai-food-recognition"]

\* AIService.analyzeFoodFromImage, lines 32-44: the first configured provider
\* is called; without one the mock analysis is returned.
AnalyzeImage_Call(p, openai, clarifai, r) ==
    /\ Arrive(p)
    /\ pc[p] = "idle"
    /\ LET c == [NoCall EXCEPT !.op = "analyzeImage",
                               !.providers = [openai |-> openai, clarifai |-> clarifai]]
       IN IF openai THEN Goto(p, [c EXCEPT !.attempted = <<"openai">>], "ai_wait")
          ELSE IF clarifai THEN Goto(p, [c EXCEPT !.attempted = <<"clarifai">>], "ai_wait")
          ELSE Respond(p, [c EXCEPT !.attempted = <<"mock">>,
                                    !.analysis = MockFoodAnalysis(r)], 200)
    /\ UNCHANGED <<meals, lifetime, nextId, nupd, nfail, accounts, cache, clock>>

\* Lines 35, 40 and 46-50: the provider answers and its result is returned,
\* or it fails and the catch returns the mock analysis.
AnalyzeImage_Settle(p, answered, r) ==
    /\ pc[p] = "ai_wait"
    /\ LET c == call[p]
       IN IF answered
          THEN Respond(p, [c EXCEPT !.analysis = ProviderAnalysis(c.attempted[1])], 200)
          ELSE Respond(p, [c EXCEPT !.attempted = Append(c.attempted, "mock"),
                                    !.analysis = MockFoodAnalysis(r)], 200)
    /\ UNCHANGED <<meals, lifetime, nextId, nupd, nfail, accounts, cache, clock>>

\* FoodService.localHeuristics: one food by the filename.
LocalHeuristics(filename) ==
    LET food == IF Includes(filename, "burger")
                THEN [name |-> "Double Cheeseburger", calories |-> 850, confidence |-> Thousand]
                ELSE IF Includes(filename, "pizza")
                THEN [name |-> "Pepperoni Pizza", calories |-> 300, confidence |-> Thousand]
                ELSE [name |-> "Grilled Chicken Salad", calories |-> 450, confidence |-> Thousand]
    IN [foods |-> <<food>>, totalCalories |-> food.calories, method |-> "local-heuristics"]

\* FoodService.analyzeImage: the cloud inference throws, with or without an
\* API key, and the catch returns the local heuristics.
FoodService_AnalyzeImage(p, openai, filename) ==
    /\ Arrive(p)
    /\ pc[p] = "idle"
    /\ Respond(p, [NoCall EXCEPT !.op = "foodService",
                                 !.image = [len |-> 0, filename |-> filename],
                                 !.providers = [openai |-> openai, clarifai |-> FALSE],
                                 !.attempted = IF openai THEN <<"openai", "mock">>
                                               ELSE <<"mock">>,
                                 !.analysis = LocalHeuristics(filename)], 200)
    /\ UNCHANGED <<meals, lifetime, nextId, nupd, nfail, accounts, cache, clock>>

\* Images are analysed one at a time, with every configuration of the
\* providers and every outcome of their calls.
ImageNext ==
    \/ \E len \in BufferLengths, fn \in Filenames, rs \in RandomDraws :
          Analyze("c1", len, fn, rs)
    \/ \E openai, clarifai \in BOOLEAN, r \in Randoms :
          AnalyzeImage_Call("c1", openai, clarifai, r)
    \/ \E answered \in BOOLEAN, r \in Randoms : AnalyzeImage_Settle("c1", answered, r)
    \/ \E openai \in BOOLEAN, fn \in Filenames : FoodService_AnalyzeImage("c1", openai, fn)
    \/ Return("c1")

ImageSpec == Init /\ [][ImageNext]_vars

\* ------------------------------------------------- updateWithOptimisticLock
MaxLockRetries == 3
LockBackoff == 100

RECURSIVE Pow2(_)
Pow2(n) == IF n = 0 THEN 1 ELSE 2 * Pow2(n - 1)

\* How instance.save() may end.
SaveOutcomes == { "ok", "SequelizeOptimisticLockError", "SequelizeDatabaseError" }

\* A catch that retries after any error.
ShouldRetry_AnyError(name, retries) == retries < MaxLockRetries - 1

\* Line 253: error.name === 'SequelizeOptimisticLockError' && retries < maxRetries - 1
ShouldRetry(name, retries) ==
    name = "SequelizeOptimisticLockError" /\ retries < MaxLockRetries - 1

\* Lines 252-259: the catch of an attempt that ended with error name: the
\* counter, the sleep of Math.pow(2, retries) * 100 and the next turn of the
\* loop, or the error thrown to the caller.
Lock_Catch(p, c, name) ==
    LET d == [c EXCEPT !.outcomes = Append(c.outcomes, name)]
    IN IF ShouldRetry(name, c.retries)
       THEN Goto(p, [d EXCEPT !.retries = c.retries + 1,
                              !.waits = Append(c.waits, Pow2(c.retries + 1) * LockBackoff)],
                 "lock_find")
       ELSE Respond(p, [d EXCEPT !.result = name], 0)

\* updateWithOptimisticLock(Meal, id, { mealType: 'lunch' }) is called.
Lock_Start(p, id) ==
    /\ Arrive(p)
    /\ pc[p] = "idle"
    /\ Goto(p, [NoCall EXCEPT !.op = "optimisticLock", !.mealId = id], "lock_find")
    /\ UNCHANGED <<meals, lifetime, nextId, nupd, nfail, accounts, cache, clock>>

\* Lines 229-235: the loop condition, model.findByPk(id) and the throw for a
\* missing record.
Lock_Find(p, ok) ==
    /\ pc[p] = "lock_find"
    /\ LET c == call[p]
       IN IF c.retries >= MaxLockRetries
          THEN Respond(p, [c EXCEPT !.result = "Error"], 0)
          ELSE IF ~ok THEN Lock_Catch(p, c, "SequelizeDatabaseError")
          ELSE IF ~ \E m \in meals : m.id = c.mealId THEN Lock_Catch(p, c, "Error")
          ELSE Goto(p, c, "lock_save")
    /\ UNCHANGED <<meals, lifetime, nextId, nupd, nfail, accounts, cache, clock>>

\* Lines 238-251: the assignment of the updates, instance.save() and the
\* return of the instance.
Lock_Save(p, outcome) ==
    /\ pc[p] = "lock_save"
    /\ LET c == call[p]
       IN IF outcome = "ok"
          THEN /\ meals' = { IF m.id = c.mealId THEN [m EXCEPT !.mealType = "lunch"] ELSE m
                             : m \in meals }
               /\ Respond(p, [c EXCEPT !.outcomes = Append(c.outcomes, "ok"),
                                       !.result = "returned"], 0)
          ELSE /\ Lock_Catch(p, c, outcome)
               /\ UNCHANGED meals
    /\ UNCHANGED <<lifetime, nextId, nupd, nfail, accounts, cache, clock>>

\* Meals are logged and updated under the optimistic lock, one call at a
\* time; every save may succeed, conflict or fail, and a call that has
\* started runs on.
LockNext ==
    \/ LogMeal("c1", TRUE, {1}, {NoTotal}, MaxLogged)
    \/ \E id \in 1..(MaxLogged + 1) : Lock_Start("c1", id)
    \/ \E ok \in BOOLEAN : Lock_Find("c1", ok)
    \/ \E outcome \in SaveOutcomes : Lock_Save("c1", outcome)
    \/ Return("c1")

LockSpec == Init /\ [][LockNext]_vars /\ WF_vars(LockNext)

\* ---------------------------------------------------------- AsyncUtils.retry
\* The arguments of a call and the ways an invocation of operation may end.
MaxRetriesArg == 3
RetryCounts == (-1)..MaxRetriesArg
BaseDelays == { 100, 1000 }
OperationOutcomes == { "ok", "ETIMEDOUT", "ECONNRESET" }

\* A delay that does not grow.
RetryDelay_Constant(baseDelay, attempt) == baseDelay

\* Line 628: baseDelay * Math.pow(2, attempt)
RetryDelay(baseDelay, attempt) == baseDelay * Pow2(attempt)

\* AsyncUtils.retry(operation, maxRetries, baseDelay) is called: attempt = 0.
Retry_Start(p, maxRetries, baseDelay) ==
    /\ Arrive(p)
    /\ pc[p] = "idle"
    /\ Goto(p, [NoCall EXCEPT !.op = "retry", !.maxRetries = maxRetries,
                              !.baseDelay = baseDelay], "retry_call")
    /\ UNCHANGED <<meals, lifetime, nextId, nupd, nfail, accounts, cache, clock>>

\* Lines 618-631: one turn of the loop, with attempt held in retries: the
\* loop condition, the invocation, and for a failure the throw of lastError
\* or the sleep and attempt++.
Retry_Attempt(p, outcome) ==
    /\ pc[p] = "retry_call"
    /\ LET c == call[p]
           d == [c EXCEPT !.outcomes = Append(c.outcomes, outcome)]
       IN IF c.retries > c.maxRetries
          THEN Respond(p, [c EXCEPT !.result = "returned"], 0)
          ELSE IF outcome = "ok" THEN Respond(p, [d EXCEPT !.result = "returned"], 0)
          ELSE IF c.retries = c.maxRetries THEN Respond(p, [d EXCEPT !.result = outcome], 0)
          ELSE Goto(p, [d EXCEPT !.waits = Append(c.waits, RetryDelay(c.baseDelay, c.retries)),
                                 !.retries = c.retries + 1],
                    "retry_call")
    /\ UNCHANGED <<meals, lifetime, nextId, nupd, nfail, accounts, cache, clock>>

\* Operations are retried, one call at a time; every invocation may succeed
\* or fail, and a call that has started runs on.
RetryNext ==
    \/ \E n \in RetryCounts, b \in BaseDelays : Retry_Start("c1", n, b)
    \/ \E outcome \in OperationOutcomes : Retry_Attempt("c1", outcome)
    \/ Return("c1")

RetrySpec == Init /\ [][RetryNext]_vars /\ WF_vars(RetryNext)

\* ---------------------------------------------------------------- SimpleCache
\* new SimpleCache(maxSize, ttl), the keys and values of the calls, and the
\* ticks the clock may reach.
CacheMaxSize == 2
CacheTtl == 1
MaxClock == 3
CacheKeys == { "a", "b", "c" }
CacheValues == { "v1", "v2" }
Null == "<null>"

\* this.cache.has(key) and the position of the key in the Map.
CacheHas(entries, key) == \E i \in 1..Len(entries) : entries[i].key = key
CacheIndex(entries, key) == CHOOSE i \in 1..Len(entries) : entries[i].key = key

\* this.cache.delete(key)
CacheDelete(entries, key) == SelectSeq(entries, LAMBDA e : e.key # key)

\* this.cache.set(key, item): a present key keeps its place in the Map.
MapSet(entries, item) ==
    IF CacheHas(entries, item.key)
    THEN [entries EXCEPT ![CacheIndex(entries, item.key)] = item]
    ELSE Append(entries, item)

\* SimpleCache.set: the first key of the Map is deleted when the cache holds
\* maxSize entries, then the entry is written with the time of the call.
CacheSet(entries, key, value, now) ==
    LET kept == IF Len(entries) >= CacheMaxSize /\ Len(entries) > 0
                THEN Tail(entries) ELSE entries
    IN MapSet(kept, [key |-> key, value |-> value, timestamp |-> now])

Cache_Set(p, key, value) ==
    /\ Arrive(p)
    /\ pc[p] = "idle"
    /\ cache' = CacheSet(cache, key, value, clock)
    /\ Respond(p, [NoCall EXCEPT !.op = "cacheSet", !.key = key], 0)
    /\ UNCHANGED <<meals, lifetime, nextId, nupd, nfail, accounts, clock>>

\* SimpleCache.get: null for a missing key; an entry older than ttl is
\* deleted and null returned; else the value.
Cache_Get(p, key) ==
    /\ Arrive(p)
    /\ pc[p] = "idle"
    /\ LET c == [NoCall EXCEPT !.op = "cacheGet", !.key = key]
       IN IF ~CacheHas(cache, key)
          THEN Respond(p, [c EXCEPT !.result = Null], 0) /\ UNCHANGED cache
          ELSE LET item == cache[CacheIndex(cache, key)]
               IN IF clock - item.timestamp > CacheTtl
                  THEN /\ cache' = CacheDelete(cache, key)
                       /\ Respond(p, [c EXCEPT !.result = Null], 0)
                  ELSE /\ Respond(p, [c EXCEPT !.result = item.value], 0)
                       /\ UNCHANGED cache
    /\ UNCHANGED <<meals, lifetime, nextId, nupd, nfail, accounts, clock>>

\* SimpleCache.clear
Cache_Clear(p) ==
    /\ Arrive(p)
    /\ pc[p] = "idle"
    /\ cache' = <<>>
    /\ Respond(p, [NoCall EXCEPT !.op = "cacheClear"], 0)
    /\ UNCHANGED <<meals, lifetime, nextId, nupd, nfail, accounts, clock>>

\* Time passes between two calls.
Tick ==
    /\ clock < MaxClock
    /\ clock' = clock + 1
    /\ UNCHANGED <<meals, lifetime, nextId, pc, call, nupd, nfail, accounts, cache>>

\* Any sequence of set, get and clear on one cache, as time passes.
CacheNext ==
    \/ \E k \in CacheKeys, v \in CacheValues : Cache_Set("c1", k, v)
    \/ \E k \in CacheKeys : Cache_Get("c1", k)
    \/ Cache_Clear("c1")
    \/ Tick
    \/ Return("c1")

CacheSpec == Init /\ [][CacheNext]_vars

\* ------------------------------------------------------------------ claims
Quiescent == \A p \in Procs : pc[p] \in Rest

CounterInSync(u) == lifetime[u] = SumTotals(MealsOf(u))

RowOf(p) == { m \in meals : m.id = call[p].mealId }

\* C1: after any sequence of completed logMeal, updateMeal, deleteMeal and
\* smart-log calls, every user's lifetimeCalories equals the sum of
\* totalCalories over that user's existing meal records.
C1_LifetimeEqualsSum == Quiescent => \A u \in Users : CounterInSync(u)

\* C2: when N concurrent logMeal requests of one user, each adding C calories,
\* have all completed, lifetimeCalories has grown (from 0) by exactly N * C.
C2_NoLostUpdate ==
    Quiescent =>
        \A u \in Users : \A c \in { m.totalCalories : m \in MealsOf(u) } :
            (\A m \in MealsOf(u) : m.totalCalories = c)
                => lifetime[u] = Cardinality(MealsOf(u)) * c

\* C3: once a logMeal call has ended, in success or in an error, either its
\* meal record is inserted and the owner's lifetimeCalories is incremented, or
\* neither happened.
C3_LogMealAtomic ==
    \A p \in Procs :
        (pc[p] = "done" /\ call[p].op = "logMeal") =>
            \/ RowOf(p) # {} /\ lifetime[call[p].user] # call[p].before
            \/ RowOf(p) = {} /\ lifetime[call[p].user] = call[p].before

\* C4: whatever totalCalories the body of logMeal carries, the stored record's
\* totalCalories and the amount added to the owner's lifetimeCalories both
\* equal the sum of the foods' calories.
C4_ServerSideTotal ==
    \A p \in Procs :
        (pc[p] \in {"log_find", "log_save"} /\ call[p].op = "logMeal") =>
            \A m \in RowOf(p) :
                /\ m.totalCalories = ReduceCalories(m.foods)
                /\ call[p].amount = ReduceCalories(m.foods)

C6_LinearizableUnit == (\A p \in Procs : pc[p] \in Rest) => CounterInSync(1)

\* C7: after a deleteMeal call on an existing owned meal, in success or in an
\* error, either the record is gone and the counter is lower by exactly the
\* record's totalCalories, or the record still exists and the counter is
\* unchanged.
C7_DeleteAtomic ==
    \A p \in Procs :
        (pc[p] = "done" /\ call[p].op = "deleteMeal" /\ call[p].instTotal # 0) =>
            \/ RowOf(p) = {}
                 /\ lifetime[call[p].user] = call[p].before - call[p].instTotal
            \/ RowOf(p) # {}
                 /\ lifetime[call[p].user] = call[p].before

FoodsInvalid(f) ==
    \/ f.kind # "array"
    \/ Len(f.items) = 0
    \/ \E i \in 1..Len(f.items) :
          \/ f.items[i].name = Undefined
          \/ f.items[i].name = ""
          \/ f.items[i].ctype # "number"
          \/ f.items[i].calories < 0

\* C9: logMeal with such foods answers 400, inserts no meal record and leaves
\* lifetimeCalories unchanged.
C9_InvalidFoodsRejected ==
    [][\A p \in Procs, u \in Users, f \in LogFoodsInputs, t \in ClientTotals :
          (FoodsInvalid(f) /\ LogMeal_Create(p, u, f, t, TRUE)) =>
              /\ call'[p].status = 400
              /\ meals' = meals
              /\ lifetime' = lifetime]_vars

\* No meal with this id is owned by this user.
NotOwned(id, u) == ~ \E m \in meals : m.id = id /\ m.userId = u

Rejected404(p) ==
    /\ pc'[p] = "done"
    /\ call'[p].status = 404
    /\ meals' = meals
    /\ lifetime' = lifetime

\* C10: an updateMeal or deleteMeal request arriving with a meal id that does
\* not exist or is owned by another user is answered 404 in the step that
\* looks the meal up (no storage failure), and that step leaves every meal
\* record and every user's lifetimeCalories unchanged.
C10_NotFoundNoChange ==
    [][\A p \in Procs :
          (/\ pc[p] = "idle" /\ pc'[p] # "idle"
           /\ call'[p].op \in {"updateMeal", "deleteMeal"}
           /\ NotOwned(call'[p].mealId, call'[p].user)
           /\ nfail' = nfail) => Rejected404(p)]_vars

\* An update or a delete of another user's meal was answered 404.
C10_Witness ==
    \E p \in Procs :
        /\ pc[p] = "done" /\ call[p].op \in {"updateMeal", "deleteMeal"}
        /\ call[p].status = 404
        /\ \E m \in meals : m.id = call[p].mealId /\ m.userId # call[p].user

\* The rows a response carries.
Returned(p) == { call[p].body.rows[i] : i \in 1..Len(call[p].body.rows) }

\* C11: no step of a request authenticated as user A returns, modifies or
\* deletes a meal record owned by another user B or changes B's
\* lifetimeCalories (logMeal, getMeal, history, updateMeal and deleteMeal, with
\* any meal id of the path).
C11_OwnerOnly ==
    [][\A p \in Procs : \A b \in Users :
          (call'[p].op # "none" /\ call'[p].user # b) =>
              /\ { m \in meals' : m.userId = b } = MealsOf(b)
              /\ lifetime'[b] = lifetime[b]
              /\ \A i \in 1..Len(call'[p].body.rows) :
                    call'[p].body.rows[i].userId # b]_vars

\* While another user owns a meal, a history request returned the caller's
\* own meal, and a getMeal for the other user's meal was answered 404.
C11_Witness ==
    \E p \in Procs :
        /\ pc[p] = "done"
        /\ \E m \in meals : m.userId # call[p].user
        /\ \/ call[p].op = "history" /\ Returned(p) # {}
           \/ /\ call[p].op = "getMeal" /\ call[p].status = 404
              /\ \E m \in meals : m.id = call[p].mealId

\* C12: in every reachable state, after any sequence and any interleaving of
\* logMeal, updateMeal and deleteMeal calls, every user's lifetimeCalories is
\* at least 0.
C12_NeverNegative == \A u \in Users : lifetime[u] >= 0

\* C13: logging a meal and then deleting that same meal restores
\* lifetimeCalories to its value before the log; so where meals were only
\* logged and deleted, one call at a time, a user whose logged meals have all
\* been deleted again has the lifetimeCalories of the start, 0.
C13_LogThenDeleteRestores ==
    \A u \in Users : (Quiescent /\ MealsOf(u) = {}) => lifetime[u] = 0

\* The caller's meals consumed on the calendar day, or in the Sunday-based
\* calendar week, of the date of the request.
DayIndex(t) == t \div HoursPerDay
WeekIndex(t) == (DayIndex(t) + EpochWeekday) \div DaysPerWeek
AskedDate(p) == call[p].query.startDate.at
SameDayRows(p) ==
    { m \in MealsOf(call[p].user) : DayIndex(m.consumedAt) = DayIndex(AskedDate(p)) }
SameWeekRows(p) ==
    { m \in MealsOf(call[p].user) : WeekIndex(m.consumedAt) = WeekIndex(AskedDate(p)) }
SumOf(rows) ==
    [totalCalories |-> SumTotals(rows), mealCount |-> Cardinality(rows),
     totalSteps |-> SumSteps(rows)]

\* C14: dailyTotals(ownerId, date) reports the sum of totalCalories, the
\* number and the sum of recommendedSteps of exactly the owner's meals whose
\* consumedAt lies in [startOfDay(date), startOfDay(date) + 24h).
C14_DailyWindow ==
    \A p \in Procs :
        (pc[p] = "done" /\ call[p].op = "daily") =>
            /\ call[p].status = 200
            /\ call[p].body.totals = SumOf(SameDayRows(p))
            /\ \A m \in MealsOf(call[p].user) :
                  m \in SameDayRows(p) <=>
                      /\ m.consumedAt >= StartOfDay(AskedDate(p))
                      /\ m.consumedAt < StartOfDay(AskedDate(p)) + 24

\* A day's totals were reported with one meal of the owner exactly at the
\* start of the day, which is counted, and one exactly 24h later, which is not.
C14_Witness ==
    \E p \in Procs :
        /\ pc[p] = "done" /\ call[p].op = "daily"
        /\ call[p].body.totals.mealCount = 1
        /\ \E m, n \in MealsOf(call[p].user) :
              /\ m.consumedAt = StartOfDay(AskedDate(p))
              /\ n.consumedAt = StartOfDay(AskedDate(p)) + 24

\* C15: with no meal of the user in the window, dailyTotals and weeklyTotals
\* return {totalCalories: 0, mealCount: 0, totalSteps: 0} and no error.
C15_EmptyWindowZero ==
    \A p \in Procs :
        /\ (pc[p] = "done" /\ call[p].op = "daily" /\ SameDayRows(p) = {}) =>
              call[p].status = 200 /\ call[p].body.totals = NoTotals
        /\ (pc[p] = "done" /\ call[p].op = "weekly" /\ SameWeekRows(p) = {}) =>
              call[p].status = 200 /\ call[p].body.totals = NoTotals

\* Totals of an empty window were reported while the user has meals outside it.
C15_Witness ==
    \E p \in Procs :
        /\ pc[p] = "done" /\ call[p].op = "weekly"
        /\ SameWeekRows(p) = {} /\ MealsOf(call[p].user) # {}
        /\ call[p].body.kind = "totals"

C17_Progress ==
    \A p \in Procs :
        (pc[p] = "done" /\ call[p].op = "progress") =>
            /\ call[p].status = 200
            /\ call[p].body.progress =
                   DailyProgress(SumTotals({ m \in MealsOf(call[p].user) :
                                               DayIndex(m.consumedAt) = DayIndex(Now) }),
                                 DefaultGoal)

\* The caller's meals that pass the filters of the request, and the number of
\* them that come before a meal in the order of the history.
Matching(p) ==
    { m \in MealsOf(call[p].user) :
        /\ call[p].query.startDate.present => m.consumedAt >= call[p].query.startDate.at
        /\ call[p].query.endDate.present => m.consumedAt <= call[p].query.endDate.at
        /\ call[p].query.mealType # Undefined => m.mealType = call[p].query.mealType }
Rank(p, m) ==
    Cardinality({ n \in Matching(p) :
                    \/ n.consumedAt > m.consumedAt
                    \/ n.consumedAt = m.consumedAt /\ n.id < m.id })

\* C18: a history page holds only the caller's meals that match the filters,
\* in descending order of consumedAt, at most 100 of them; page k of size L
\* holds exactly the meals at places (k-1)L .. kL-1 of the ordered result, so
\* successive pages are disjoint consecutive slices, and hasNextPage is true
\* exactly when meals remain after the page.
C18_HistoryPages ==
    \A p \in Procs :
        (pc[p] = "done" /\ call[p].op = "history" /\ call[p].status = 200) =>
            LET rows == call[p].body.rows
                k == PageNum(call[p].query).v
                size == LimitNum(call[p].query).v
            IN /\ size <= 100 /\ Len(rows) <= size
               /\ \A i, j \in 1..Len(rows) :
                     i < j => rows[i].consumedAt >= rows[j].consumedAt /\ rows[i] # rows[j]
               /\ Returned(p) =
                     { m \in Matching(p) :
                         (k - 1) * size <= Rank(p, m) /\ Rank(p, m) < k * size }
               /\ call[p].body.hasNextPage <=>
                     \E m \in Matching(p) : Rank(p, m) >= k * size

\* The second page of size 1 was returned, of a result of two meals from which
\* a filter excluded none: page 2 holds one meal and is the last.
C18_Witness ==
    \E p \in Procs :
        /\ pc[p] = "done" /\ call[p].op = "history" /\ call[p].status = 200
        /\ call[p].query.page = "2" /\ call[p].query.limit = "1"
        /\ Cardinality(Matching(p)) = 2
        /\ Len(call[p].body.rows) = 1
        /\ ~call[p].body.hasNextPage

\* page < 1, pageSize < 1, pageSize > 100 or a non-numeric value.
OutOfRange(q) ==
    \/ q.page # Undefined /\ (ParseInt(q.page).nan \/ ParseInt(q.page).v < 1)
    \/ q.limit # Undefined
          /\ (ParseInt(q.limit).nan \/ ParseInt(q.limit).v < 1 \/ ParseInt(q.limit).v > 100)

\* C19: a history request with out-of-range pagination fails with a
\* validation error (400) and returns no page.
C19_PaginationRejected ==
    \A p \in Procs :
        (pc[p] = "done" /\ call[p].op = "history" /\ OutOfRange(call[p].query)) =>
            call[p].status = 400 /\ call[p].body.kind = "none"

NoDuplicateNames ==
    \A a, b \in accounts :
        LowerTrim(a.username) = LowerTrim(b.username) => a = b

NameTaken(name) == \E a \in accounts : LowerTrim(a.username) = LowerTrim(name)

\* A step of a register call whose username is taken, in any letter case,
\* creates no account and does not answer 201; when the name is taken as the
\* call arrives, the call fails in that step.
TakenRegisterFails ==
    \A p \in Procs :
        (call'[p].op = "register" /\ pc'[p] # pc[p] /\ call'[p].username # Undefined
            /\ NameTaken(call'[p].username)) =>
                /\ accounts' = accounts
                /\ pc'[p] = "done" /\ call'[p].status \in {400, 500}

\* C20: after any interleaving of register calls no two accounts have
\* usernames that are equal after lower-casing and trimming, and a register
\* call for a username that is already taken fails and creates no account.
C20_UniqueUsernames == []NoDuplicateNames /\ [][TakenRegisterFails]_vars

\* Two register calls for the same name in different letter case passed the
\* lookup together; one created the account, the other failed on the insert.
C20_Witness ==
    \E p, q \in Procs :
        /\ pc[p] = "done" /\ call[p].op = "register" /\ call[p].status = 201
        /\ pc[q] = "done" /\ call[q].op = "register" /\ call[q].status = 500
        /\ call[p].username # call[q].username
        /\ LowerTrim(call[p].username) = LowerTrim(call[q].username)
        /\ Cardinality(accounts) = 1

\* The header carries no token the middleware accepts: none, no Bearer
\* header, a rejected or an expired token, or a token of a user without a row.
BadToken(token) ==
    \/ token.kind # "valid"
    \/ ~ \E a \in accounts : a.id = token.id

\* The step that takes a request with such a header answers it 401 with an
\* empty body and leaves the meals and the counters as they were; no handler
\* behind the middleware starts.
AuthShortCircuits ==
    \A p \in Procs :
        (pc[p] = "idle" /\ pc'[p] # "idle" /\ call'[p].op = "auth"
            /\ BadToken(call'[p].token)) =>
                /\ pc'[p] = "done" /\ call'[p].status = 401
                /\ call'[p].body = NoBody /\ call'[p].reqUser = NoUser
                /\ meals' = meals /\ lifetime' = lifetime

LeaksPassword(o) ==
    \/ "password" \in DOMAIN o
    \/ o.username \in Passwords \cup { Hash(pw) : pw \in Passwords }

\* C22: no response of register, login, get-profile or update-profile, and no
\* user object the auth middleware attaches to a request, contains the
\* password or its hash.
C22_PasswordNeverSerialized ==
    \A p \in Procs :
        ~LeaksPassword(call[p].body.user) /\ ~LeaksPassword(call[p].reqUser)

\* A login was answered with the user object of an account whose row holds a
\* password hash.
C22_Witness ==
    \E p \in Procs :
        /\ pc[p] = "done" /\ call[p].op = "login" /\ call[p].status = 200
        /\ \E a \in accounts : a.id = call[p].body.user.id
                                /\ a.password = Hash(call[p].password)

\* C26: every stored meal has a non-empty foods list in which each food has a
\* name and non-negative numeric calories, after any sequence of logMeal and
\* updateMeal calls.
C26_StoredFoodsValid ==
    \A m \in meals :
        /\ Len(m.foods) > 0
        /\ \A i \in 1..Len(m.foods) :
              /\ m.foods[i].name \notin {Undefined, ""}
              /\ m.foods[i].ctype = "number"
              /\ m.foods[i].calories >= 0

\* C27: every stored meal satisfies recommendedSteps = round(totalCalories *
\* 0.05), and the recommendedSteps reported for it equals the stored one.
C27_StepsStoredAndReported ==
    \A m \in meals :
        /\ m.recommendedSteps = RecommendedSteps(m.totalCalories)
        /\ TransformMealData(m).recommendedSteps = m.recommendedSteps

\* A non-empty list in which every item has a name and numeric calories >= 0.
AcceptableFoods(f) ==
    /\ FoodsPresent(f)
    /\ \A i \in 1..Len(f.items) :
          /\ ~f.items[i].isNull
          /\ f.items[i].name # Undefined /\ NormName(f.items[i].name) # ""
          /\ f.items[i].ctype = "number" /\ f.items[i].calories >= 0

\* C28: logMeal accepts every non-empty foods list whose items each have a
\* name and calories >= 0, calories of exactly 0 included: the meal is stored
\* with those foods and the amount added to the counter is their sum.
C28_ZeroCaloriesAccepted ==
    [][\A f \in EdgeLogInputs :
          (AcceptableFoods(f) /\ LogMeal_Create("c1", 1, f, NoTotal, TRUE)) =>
              /\ pc'["c1"] = "log_find"
              /\ call'["c1"].amount = ReduceCalories(f.items)
              /\ \E m \in meals' \ meals : m.foods = Stored(MapFoods(f.items))]_vars

\* C23: the food classifier returns at least one food for every buffer and
\* filename, each confidence lies within [0, 1] and totalCalories is the sum
\* of the calories of the foods returned.
C23_ClassifierTotal ==
    \A p \in Procs :
        (pc[p] = "done" /\ call[p].analysis.method \in {"mock-detection", "mock-analysis"}) =>
            LET a == call[p].analysis
            IN /\ Len(a.foods) >= 1
               /\ \A k \in 1..Len(a.foods) :
                     a.foods[k].confidence >= 0 /\ a.foods[k].confidence <= Thousand
               /\ a.totalCalories = SumCalories(a.foods)

\* An empty buffer under a filename that names no food was classified.
C23_Witness ==
    \E p \in Procs :
        /\ pc[p] = "done" /\ call[p].op = "analyzeFood"
        /\ call[p].image.len = 0 /\ call[p].image.filename = "IMG_0001.jpg"
        /\ Len(call[p].analysis.foods) >= 1

\* The providers configured for a call, in priority order.
Configured(c) ==
    (IF c.providers.openai THEN <<"openai">> ELSE <<>>)
    \o (IF c.providers.clarifai THEN <<"clarifai">> ELSE <<>>)
    \o <<"mock">>

IsPrefix(a, b) == Len(a) <= Len(b) /\ \A i \in 1..Len(a) : a[i] = b[i]

\* C24: the providers are attempted in priority order (OpenAI vision,
\* Clarifai, mock): the providers a call has attempted are the first of the
\* configured ones, none skipped, and the result is that of the last attempted.
C24_PriorityOrder ==
    \A p \in Procs :
        (pc[p] = "done" /\ call[p].op \in {"analyzeImage", "foodService"}) =>
            /\ IsPrefix(call[p].attempted, Configured(call[p]))
            /\ call[p].analysis # NoAnalysis

\* A call of updateWithOptimisticLock has made at most 3 attempts, every
\* attempt that was followed by another one ended in an optimistic-lock
\* conflict, one delay was slept per retry and the delays grow; a finished
\* call returned exactly when its last attempt saved, and otherwise threw the
\* error of its last attempt, a conflict only after the third attempt.
LockBounded ==
    \A p \in Procs :
        call[p].op = "optimisticLock" =>
            LET c == call[p]
                n == Len(c.outcomes)
            IN /\ n <= 3
               /\ \A i \in 1..(n - 1) : c.outcomes[i] = "SequelizeOptimisticLockError"
               /\ Len(c.waits) = c.retries
               /\ pc[p] # "done" => n = c.retries
               /\ \A i, j \in 1..Len(c.waits) : i < j => c.waits[i] < c.waits[j]
               /\ pc[p] = "done" =>
                     /\ n >= 1 /\ n = c.retries + 1
                     /\ (c.result = "returned") = (c.outcomes[n] = "ok")
                     /\ c.result # "returned" => c.result = c.outcomes[n]
                     /\ c.outcomes[n] = "SequelizeOptimisticLockError" => n = 3

\* C25: updateWithOptimisticLock makes at most 3 attempts, retries only after
\* an optimistic-lock conflict and after a growing delay, returns on the
\* first successful save, throws after the third conflict or at once on any
\* other error, and always terminates.
C25_LockTerminates ==
    /\ []LockBounded
    /\ \A p \in Procs :
          (call[p].op = "optimisticLock" /\ pc[p] \notin Rest) ~> (pc[p] = "done")

\* Three attempts conflicted: two delays were slept and the conflict was thrown.
C25_Witness ==
    \E p \in Procs :
        /\ pc[p] = "done" /\ call[p].op = "optimisticLock"
        /\ call[p].result = "SequelizeOptimisticLockError"
        /\ Len(call[p].outcomes) = 3
        /\ call[p].waits = <<2 * LockBackoff, 4 * LockBackoff>>

\* A call of AsyncUtils.retry has invoked operation at most maxRetries + 1
\* times and never again after a success; the i-th delay it slept is
\* baseDelay * 2^(i-1), one after each failed attempt but the last; a
\* finished call resolved when its last invocation succeeded, and otherwise
\* rejected after maxRetries + 1 failures with the error of the last one.
RetryBounded ==
    \A p \in Procs :
        call[p].op = "retry" =>
            LET c == call[p]
                n == Len(c.outcomes)
            IN /\ n <= c.maxRetries + 1
               /\ \A i \in 1..(n - 1) : c.outcomes[i] # "ok"
               /\ \A i \in 1..Len(c.waits) : c.waits[i] = c.baseDelay * Pow2(i - 1)
               /\ pc[p] # "done" => Len(c.waits) = n
               /\ pc[p] = "done" =>
                     /\ n > 0 => Len(c.waits) = n - 1
                     /\ (n > 0 /\ c.outcomes[n] = "ok") => c.result = "returned"
                     /\ c.result # "returned" =>
                           n = c.maxRetries + 1 /\ c.result = c.outcomes[n]
                     /\ (c.result = "returned" /\ n > 0) => c.outcomes[n] = "ok"

\* C30: AsyncUtils.retry invokes operation at most maxRetries + 1 times,
\* resolves with the first success, waits baseDelay * 2^attempt between a
\* failed attempt and the next, rejects after maxRetries + 1 failures with the
\* error of the last attempt, and always terminates.
C30_RetryTerminates ==
    /\ []RetryBounded
    /\ \A p \in Procs :
          (call[p].op = "retry" /\ pc[p] \notin Rest) ~> (pc[p] = "done")

\* With maxRetries = 2 three invocations failed, the last with another error
\* than the first: two delays were slept and the last error was thrown.
C30_Witness ==
    \E p \in Procs :
        /\ pc[p] = "done" /\ call[p].op = "retry" /\ call[p].maxRetries = 2
        /\ call[p].outcomes = <<"ETIMEDOUT", "ETIMEDOUT", "ECONNRESET">>
        /\ call[p].result = "ECONNRESET"
        /\ call[p].waits = <<call[p].baseDelay, 2 * call[p].baseDelay>>

\* The keys a cache holds.
KeysOf(entries) == { entries[i].key : i \in 1..Len(entries) }

\* A set of a new key on a full cache evicts the oldest entry and no other;
\* a set of a key that is present evicts nothing.
SetEvicts ==
    \A p \in Procs :
        (pc[p] = "idle" /\ pc'[p] = "done" /\ call'[p].op = "cacheSet") =>
            LET key == call'[p].key
            IN /\ KeysOf(cache') \subseteq KeysOf(cache) \cup {key}
               /\ key \in KeysOf(cache')
               /\ (key \notin KeysOf(cache) /\ Len(cache) = CacheMaxSize) =>
                     KeysOf(cache) \ KeysOf(cache') = {cache[1].key}
               /\ (key \notin KeysOf(cache) /\ Len(cache) < CacheMaxSize) =>
                     KeysOf(cache) \subseteq KeysOf(cache')
               /\ key \in KeysOf(cache) => KeysOf(cache') = KeysOf(cache)

\* A get returns the value of an entry set no more than ttl ago; otherwise it
\* returns null, and an expired entry is removed.
GetExpires ==
    \A p \in Procs :
        (pc[p] = "idle" /\ pc'[p] = "done" /\ call'[p].op = "cacheGet") =>
            LET key == call'[p].key
                fresh == { i \in 1..Len(cache) :
                             cache[i].key = key /\ clock - cache[i].timestamp <= CacheTtl }
            IN /\ fresh # {} => \E i \in fresh : call'[p].result = cache[i].value
               /\ fresh = {} => call'[p].result = Null /\ key \notin KeysOf(cache')
               /\ KeysOf(cache) \ {key} \subseteq KeysOf(cache')

\* C29: after any sequence of set, get and clear the cache holds at most
\* maxSize entries; a set of a new key on a full cache evicts exactly the
\* oldest entry, a set of a present key evicts nothing; a get returns a value
\* only if it was set no more than ttl ago, and otherwise null, removing the
\* expired entry.
C29_CacheBoundedExpiring ==
    /\ [](Len(cache) <= CacheMaxSize)
    /\ [][SetEvicts /\ GetExpires]_vars

====
